---- MODULE Spec2Model ----
(***************************************************************************)
(* Model of the spec-lock subsystem of solserver (scripts/spec_lock.py and *)
(* scripts/verify_spec_lock.py): newline normalisation and digests, the    *)
(* canonical content loader with its fallback chain, lock generation,      *)
(* drift verification, the exit policy and the generated-block upserter.   *)
(*                                                                         *)
(* Texts are sequences of characters.  "CR" and "LF" are the carriage      *)
(* return and the line feed; every other character is an ordinary one.     *)
(***************************************************************************)
EXTENDS Integers, Sequences, FiniteSets, TLC

VARIABLES
    \* ---- hash normaliser runs (SpecText)
    text,            \* the text handed to normalize_newlines / sha256_normalized_text
    variant,         \* the same lines written with other line endings
    hashed,          \* results of the calls made so far
    \* ---- generated block upserter runs (SpecUpsert)
    document_text,   \* the document handed to the first upsert
    rendered_block,  \* the block handed to both upserts
    upserted,        \* results of the first and of the second upsert
    \* ---- environment of the content loader
    infra_docs_root, \* INFRA_DOCS_ROOT: "unset", "empty", "dir", "missing" or "file"
    local,           \* relpath -> what lies at root/relpath
    gh_api,          \* relpath -> what fetch_via_gh_api does for it
    raw_github,      \* relpath -> what fetch_via_raw_github does for it
    allow_drift,     \* ALLOW_SPEC_DRIFT: "unset" or its value
    loaded,          \* the last load_canonical_text call and its outcome (SpecLoad)
    \* ---- generation and verification (Spec)
    manifest,        \* the validated manifest
    lock,            \* the lock record of the packet (spec.lock.json)
    generated,       \* outcome of the last generate_spec_lock call
    locked_with,     \* relpath -> loader outcome when the lock record was generated
    verified,        \* outcome of the last run of verify_spec_lock.py
    changes          \* number of environment changes so far

vars == <<text, variant, hashed, document_text, rendered_block, upserted,
          infra_docs_root, local, gh_api, raw_github, allow_drift, loaded,
          manifest, lock, generated, locked_with, verified, changes>>

textVars == <<text, variant, hashed>>
upsertVars == <<document_text, rendered_block, upserted>>
envVars == <<infra_docs_root, local, gh_api, raw_github, allow_drift>>
lockVars == <<manifest, lock, generated, locked_with, verified, changes>>

----------------------------------------------------------------------------
(* Bounds *)

MaxTextLen == 3      \* longest text handed to the hash normaliser
MaxDocLen == 3       \* longest document handed to the upserter
MaxBlockLen == 3     \* longest rendered block handed to the upserter
MaxFiles == 2        \* most canonical_files entries of a manifest
MaxChanges == 2      \* most environment changes in one behaviour

RECURSIVE SeqsUpTo(_, _)
SeqsUpTo(S, n) ==
    IF n = 0 THEN {<<>>}
    ELSE LET shorter == SeqsUpTo(S, n - 1)
         IN  shorter \cup {Append(s, c) : s \in {t \in shorter : Len(t) = n - 1}, c \in S}

----------------------------------------------------------------------------
(* Hash normaliser: spec_lock.py, normalize_newlines, sha256_normalized_text *)

Chars == {"a", "b", "CR", "LF"}

\* str.replace("\r\n", "\n"): left to right, non-overlapping
RECURSIVE ReplaceCRLF(_)
ReplaceCRLF(t) ==
    IF t = <<>> THEN <<>>
    ELSE IF Len(t) >= 2 /\ t[1] = "CR" /\ t[2] = "LF"
         THEN <<"LF">> \o ReplaceCRLF(SubSeq(t, 3, Len(t)))
         ELSE <<t[1]>> \o ReplaceCRLF(Tail(t))

\* str.replace("\r", "\n")
ReplaceCR(t) == [i \in 1..Len(t) |-> IF t[i] = "CR" THEN "LF" ELSE t[i]]

\* a plausible slip: the two replacements in the other order
normalize_newlines_swapped(t) == ReplaceCRLF(ReplaceCR(t))

normalize_newlines(t) == ReplaceCR(ReplaceCRLF(t))

\* The hex digest of the UTF-8 encoding of the normalised text.  SHA-256 is
\* taken to be collision free and the encoding is injective, so the digest is
\* modelled by the text that is hashed.
Sha256Hex(t) == [kind |-> "sha256", of |-> t]

sha256_normalized_text(t) == Sha256Hex(normalize_newlines(t))

\* The lines of a text as a reader with universal newlines sees them: CR LF,
\* a bare CR and a bare LF each end a line ("BR"), CR LF being one ending.
RECURSIVE LineStructure(_)
LineStructure(t) ==
    IF t = <<>> THEN <<>>
    ELSE IF t[1] = "CR"
         THEN IF Len(t) >= 2 /\ t[2] = "LF"
              THEN <<"BR">> \o LineStructure(SubSeq(t, 3, Len(t)))
              ELSE <<"BR">> \o LineStructure(Tail(t))
         ELSE IF t[1] = "LF"
              THEN <<"BR">> \o LineStructure(Tail(t))
              ELSE <<t[1]>> \o LineStructure(Tail(t))

Texts == SeqsUpTo(Chars, MaxTextLen)

NoText == [set |-> FALSE, val |-> <<>>]
SomeText(t) == [set |-> TRUE, val |-> t]
NoDigest == [kind |-> "none", of |-> <<>>]

HashedInit ==
    [normalized |-> NoText, renormalized |-> NoText,
     dText |-> NoDigest, dNormalized |-> NoDigest, dVariant |-> NoDigest]

\* normalize_newlines(text)
NormalizeText ==
    /\ ~hashed.normalized.set
    /\ hashed' = [hashed EXCEPT !.normalized = SomeText(normalize_newlines(text))]
    /\ UNCHANGED <<text, variant, upsertVars, envVars, loaded, lockVars>>

\* normalize_newlines applied to its own result
NormalizeAgain ==
    /\ hashed.normalized.set
    /\ ~hashed.renormalized.set
    /\ hashed' = [hashed EXCEPT
                    !.renormalized = SomeText(normalize_newlines(hashed.normalized.val))]
    /\ UNCHANGED <<text, variant, upsertVars, envVars, loaded, lockVars>>

\* sha256_normalized_text of the text, of its normalisation and of the variant
DigestTexts ==
    /\ hashed.normalized.set
    /\ hashed.dText.kind = "none"
    /\ hashed' = [hashed EXCEPT
                    !.dText = sha256_normalized_text(text),
                    !.dNormalized = sha256_normalized_text(hashed.normalized.val),
                    !.dVariant = sha256_normalized_text(variant)]
    /\ UNCHANGED <<text, variant, upsertVars, envVars, loaded, lockVars>>

----------------------------------------------------------------------------
(* Content loader: spec_lock.py, load_canonical_text and its strategies *)

Paths == {"spec/a.md", "spec/b.md"}

\* contents a canonical file can have: "a" ended by LF, the same line ended
\* by CR LF, and another line
Contents == {<<"a", "LF">>, <<"a", "CR", "LF">>, <<"b", "LF">>}

Roots == {"unset", "empty", "dir", "missing", "file"}

\* what lies at root/relpath
Absent == [kind |-> "absent", text |-> <<>>]
Directory == [kind |-> "dir", text |-> <<>>]
File(t) == [kind |-> "file", text |-> t]
LocalEntries == {Absent, Directory} \cup {File(t) : t \in Contents}

\* what one attempt of a network strategy does
Fails(cause) == [ok |-> FALSE, text |-> <<>>, cause |-> cause]
Returns(t) == [ok |-> TRUE, text |-> t, cause |-> "none"]
GhErrors == {"gh CLI is not available", "gh api failed"}
RawErrors == {"raw.githubusercontent.com HTTP error", "Failed to fetch from raw.githubusercontent.com"}
GhOutcomes == {Fails(c) : c \in GhErrors} \cup {Returns(t) : t \in Contents}
RawOutcomes == {Fails(c) : c \in RawErrors} \cup {Returns(t) : t \in Contents}

\* result of a call: the text returned or the exception raised, and the
\* strategies attempted, in order
Returned(t, tried) ==
    [ok |-> TRUE, text |-> t, error |-> "none", message |-> <<>>, attempts |-> tried]
Raised(type, msg, tried) ==
    [ok |-> FALSE, text |-> <<>>, error |-> type, message |-> msg, attempts |-> tried]

\* Path.read_text(encoding="utf-8") opens the file in text mode with universal
\* newlines: CR LF and a bare CR are read as LF
RECURSIVE read_text(_)
read_text(bytes) ==
    IF bytes = <<>> THEN <<>>
    ELSE IF bytes[1] = "CR"
         THEN <<"LF">> \o read_text(IF Len(bytes) >= 2 /\ bytes[2] = "LF"
                                     THEN SubSeq(bytes, 3, Len(bytes))
                                     ELSE Tail(bytes))
         ELSE <<bytes[1]>> \o read_text(Tail(bytes))

read_local_canonical_text(entry) ==
    IF entry.kind = "absent"
    THEN Raised("FileNotFoundError", <<"Canonical file not found">>, <<"local">>)
    ELSE IF entry.kind = "dir"
    THEN Raised("IsADirectoryError", <<"Is a directory">>, <<"local">>)
    ELSE Returned(read_text(entry.text), <<"local">>)

\* fetch_via_gh_api and fetch_via_raw_github decode the bytes they receive as
\* UTF-8 and return them unchanged.
\* lines 261-272: the structured API, then the raw fetch
fetch_chain(gh, raw) ==
    IF gh.ok THEN Returned(gh.text, <<"gh_api">>)
    ELSE IF raw.ok THEN Returned(raw.text, <<"gh_api", "raw_github">>)
    ELSE Raised("RuntimeError", <<"gh fetch failed", gh.cause, "raw fetch failed", raw.cause>>,
                <<"gh_api", "raw_github">>)

\* `if infra_docs_root:` is false for None and for the empty string
RootSupplied(root) == root \notin {"unset", "empty"}

InvalidRoot ==
    Raised("RuntimeError", <<"INFRA_DOCS_ROOT does not point to a valid directory">>, <<>>)

\* a plausible slip: a file missing under the local root falls through to the
\* network strategies
load_canonical_text_fallback(root, entry, gh, raw) ==
    IF RootSupplied(root) /\ root # "dir" THEN InvalidRoot
    ELSE IF RootSupplied(root) /\ entry.kind = "file" THEN read_local_canonical_text(entry)
    ELSE LET net == fetch_chain(gh, raw)
         IN  IF RootSupplied(root)
             THEN [net EXCEPT !.attempts = <<"local">> \o net.attempts]
             ELSE net

\* a plausible slip: the raw fetch is tried before the structured API
load_canonical_text_raw_first(root, entry, gh, raw) ==
    IF RootSupplied(root)
    THEN IF root # "dir" THEN InvalidRoot ELSE read_local_canonical_text(entry)
    ELSE IF raw.ok THEN Returned(raw.text, <<"raw_github">>)
    ELSE IF gh.ok THEN Returned(gh.text, <<"raw_github", "gh_api">>)
    ELSE Raised("RuntimeError", <<"gh fetch failed", gh.cause, "raw fetch failed", raw.cause>>,
                <<"raw_github", "gh_api">>)

load_canonical_text(root, entry, gh, raw) ==
    IF RootSupplied(root)
    THEN IF root # "dir" THEN InvalidRoot ELSE read_local_canonical_text(entry)
    ELSE fetch_chain(gh, raw)

\* the content_loader closure of verify_spec_lock.py, as a function of relpath
content_loader ==
    [p \in Paths |-> load_canonical_text(infra_docs_root, local[p], gh_api[p], raw_github[p])]

NotLoaded == [called |-> FALSE, relpath |-> "none", outcome |-> Raised("none", <<>>, <<>>)]

\* one call load_canonical_text(infra_repo, infra_sha, relpath, infra_docs_root)
LoadCanonicalText(relpath) ==
    /\ loaded' = [called |-> TRUE, relpath |-> relpath,
                  outcome |-> load_canonical_text(infra_docs_root, local[relpath],
                                                  gh_api[relpath], raw_github[relpath])]
    /\ UNCHANGED <<textVars, upsertVars, envVars, lockVars>>

----------------------------------------------------------------------------
(* Lock generation, drift verification, exit policy *)

Manifests ==
    {[epic |-> "EPIC-1", infra_repo |-> "SolLabsHQ/infra-docs", infra_sha |-> "abc1234",
      canonical_files |-> files] : files \in SeqsUpTo(Paths, MaxFiles) \ {<<>>}}

NoLock ==
    [present |-> FALSE, schema_version |-> 1, epic |-> "", infra_repo |-> "",
     infra_sha |-> "", canonical_files |-> <<>>]

\* the loop of generate_spec_lock: the first failing load raises out of it
RECURSIVE GenerateEntries(_, _)
GenerateEntries(files, loader) ==
    IF files = <<>>
    THEN [raised |-> FALSE, error |-> "none", message |-> <<>>, entries |-> <<>>,
          attempts |-> <<>>]
    ELSE LET relpath == Head(files)
             out == loader[relpath]
         IN  IF ~out.ok
             THEN [raised |-> TRUE, error |-> out.error, message |-> out.message,
                   entries |-> <<>>, attempts |-> <<relpath>>]
             ELSE LET rest == GenerateEntries(Tail(files), loader)
                      entry == [path |-> relpath, sha256 |-> sha256_normalized_text(out.text)]
                  IN  [rest EXCEPT
                         !.entries = IF rest.raised THEN <<>> ELSE <<entry>> \o rest.entries,
                         !.attempts = <<relpath>> \o rest.attempts]

\* a plausible slip: a failing path is skipped and the rest is locked
RECURSIVE GenerateEntriesSkipping(_, _)
GenerateEntriesSkipping(files, loader) ==
    IF files = <<>>
    THEN [raised |-> FALSE, error |-> "none", message |-> <<>>, entries |-> <<>>,
          attempts |-> <<>>]
    ELSE LET relpath == Head(files)
             out == loader[relpath]
             rest == GenerateEntriesSkipping(Tail(files), loader)
             entry == [path |-> relpath, sha256 |-> sha256_normalized_text(out.text)]
         IN  [rest EXCEPT
                !.entries = IF out.ok THEN <<entry>> \o rest.entries ELSE rest.entries,
                !.attempts = <<relpath>> \o rest.attempts]

LockRecord(m, entries) ==
    [present |-> TRUE, schema_version |-> 1, epic |-> m.epic, infra_repo |-> m.infra_repo,
     infra_sha |-> m.infra_sha, canonical_files |-> entries]

generate_spec_lock_partial(m, loader) ==
    LET g == GenerateEntriesSkipping(m.canonical_files, loader)
    IN  [raised |-> g.raised, error |-> g.error, message |-> g.message,
         attempts |-> g.attempts, record |-> LockRecord(m, g.entries)]

generate_spec_lock(m, loader) ==
    LET g == GenerateEntries(m.canonical_files, loader)
    IN  [raised |-> g.raised, error |-> g.error, message |-> g.message,
         attempts |-> g.attempts,
         record |-> IF g.raised THEN NoLock ELSE LockRecord(m, g.entries)]

\* f"<error: {exc}>"
ErrorPlaceholder(out) == [kind |-> "error", of |-> <<out.error>> \o out.message]

\* a plausible slip: the stored and the recomputed digest are reported swapped
MismatchSwapped(entry, actual) ==
    [path |-> entry.path, expected |-> actual, actual |-> entry.sha256]

Mismatch(entry, actual) ==
    [path |-> entry.path, expected |-> entry.sha256, actual |-> actual]

\* the loop of verify_spec_lock: an exception of the loader or of the digest is
\* caught and recorded, and the loop goes on
RECURSIVE VerifyEntries(_, _)
VerifyEntries(entries, loader) ==
    IF entries = <<>> THEN [mismatches |-> <<>>, attempts |-> <<>>]
    ELSE LET entry == Head(entries)
             out == loader[entry.path]
             rest == VerifyEntries(Tail(entries), loader)
             found == IF ~out.ok
                      THEN <<Mismatch(entry, ErrorPlaceholder(out))>>
                      ELSE IF sha256_normalized_text(out.text) # entry.sha256
                           THEN <<Mismatch(entry, sha256_normalized_text(out.text))>>
                           ELSE <<>>
         IN  [mismatches |-> found \o rest.mismatches,
              attempts |-> <<entry.path>> \o rest.attempts]

\* a plausible slip: the first retrieval failure ends the loop
RECURSIVE VerifyEntriesAborting(_, _)
VerifyEntriesAborting(entries, loader) ==
    IF entries = <<>> THEN [mismatches |-> <<>>, attempts |-> <<>>]
    ELSE LET entry == Head(entries)
             out == loader[entry.path]
             rest == IF out.ok THEN VerifyEntriesAborting(Tail(entries), loader)
                     ELSE [mismatches |-> <<>>, attempts |-> <<>>]
             found == IF ~out.ok
                      THEN <<Mismatch(entry, ErrorPlaceholder(out))>>
                      ELSE IF sha256_normalized_text(out.text) # entry.sha256
                           THEN <<Mismatch(entry, sha256_normalized_text(out.text))>>
                           ELSE <<>>
         IN  [mismatches |-> found \o rest.mismatches,
              attempts |-> <<entry.path>> \o rest.attempts]

verify_spec_lock_aborting(lock_data, loader) ==
    LET v == VerifyEntriesAborting(lock_data.canonical_files, loader)
    IN  [ok |-> v.mismatches = <<>>, mismatches |-> v.mismatches, attempts |-> v.attempts]

\* a plausible slip: the stored digest is compared with the raw text's digest
RECURSIVE VerifyEntriesRaw(_, _)
VerifyEntriesRaw(entries, loader) ==
    IF entries = <<>> THEN [mismatches |-> <<>>, attempts |-> <<>>]
    ELSE LET entry == Head(entries)
             out == loader[entry.path]
             rest == VerifyEntriesRaw(Tail(entries), loader)
             found == IF ~out.ok
                      THEN <<Mismatch(entry, ErrorPlaceholder(out))>>
                      ELSE IF Sha256Hex(out.text) # entry.sha256
                           THEN <<Mismatch(entry, Sha256Hex(out.text))>>
                           ELSE <<>>
         IN  [mismatches |-> found \o rest.mismatches,
              attempts |-> <<entry.path>> \o rest.attempts]

verify_spec_lock_raw(lock_data, loader) ==
    LET v == VerifyEntriesRaw(lock_data.canonical_files, loader)
    IN  [ok |-> v.mismatches = <<>>, mismatches |-> v.mismatches, attempts |-> v.attempts]

verify_spec_lock(lock_data, loader) ==
    LET v == VerifyEntries(lock_data.canonical_files, loader)
    IN  [ok |-> v.mismatches = <<>>, mismatches |-> v.mismatches, attempts |-> v.attempts]

\* a plausible slip: any set value of ALLOW_SPEC_DRIFT bypasses
decide_exit_code_any_value(ok, allow) ==
    IF ok THEN 0 ELSE IF allow # "unset" THEN 0 ELSE 1

decide_exit_code(ok, allow) ==
    IF ok THEN 0 ELSE IF allow = "1" THEN 0 ELSE 1

----------------------------------------------------------------------------
(* Generated block upserter: spec_lock.py, upsert_generated_block             *)
(* A document is a sequence of: "B", the sentinel <!-- BEGIN GENERATED: tag  *)
(* -->; "E", the sentinel <!-- END GENERATED: tag -->; "LF", a newline (the   *)
(* white space); "BS", a backslash; "x", an ASCII letter.  The tag is fixed.  *)

DocChars == {"B", "E", "x", "LF"}
BlockChars == {"B", "E", "x", "BS"}
Documents == SeqsUpTo(DocChars, MaxDocLen)
Blocks == SeqsUpTo(BlockChars, MaxBlockLen)

IsSpace(c) == c = "LF"

\* str.rstrip()
RECURSIVE rstrip(_)
rstrip(d) ==
    IF d = <<>> THEN <<>>
    ELSE IF IsSpace(d[Len(d)]) THEN rstrip(SubSeq(d, 1, Len(d) - 1)) ELSE d

\* bool(document_text.strip())
HasContent(d) == \E i \in 1..Len(d) : ~IsSpace(d[i])

Min(S) == CHOOSE m \in S : \A n \in S : m <= n

\* pattern.search: begin, then as little as possible (.*? with DOTALL), then end;
\* the leftmost match
RegionStarts(d) == {i \in 1..Len(d) : d[i] = "B" /\ \E j \in (i + 1)..Len(d) : d[j] = "E"}
HasRegion(d) == RegionStarts(d) # {}
RegionStart(d) == Min(RegionStarts(d))
RegionEnd(d) == Min({j \in (RegionStart(d) + 1)..Len(d) : d[j] = "E"})

\* pattern.sub takes rendered_block as a replacement template: a doubled
\* backslash stands for one, a backslash before an ASCII letter that is no
\* escape or at the end is an error (re.error), a backslash before any other
\* character stays
RECURSIVE ExpandTemplate(_)
ExpandTemplate(t) ==
    IF t = <<>> THEN [ok |-> TRUE, text |-> <<>>]
    ELSE IF t[1] # "BS"
         THEN LET rest == ExpandTemplate(Tail(t))
              IN  [ok |-> rest.ok, text |-> IF rest.ok THEN <<t[1]>> \o rest.text ELSE <<>>]
         ELSE IF Len(t) = 1 \/ t[2] = "x" THEN [ok |-> FALSE, text |-> <<>>]
         ELSE LET rest == ExpandTemplate(IF t[2] = "BS" THEN SubSeq(t, 3, Len(t))
                                         ELSE Tail(t))
              IN  [ok |-> rest.ok, text |-> IF rest.ok THEN <<"BS">> \o rest.text ELSE <<>>]

\* a plausible slip: the block is always appended, an existing region is not
\* looked for
upsert_generated_block_append(document, block) ==
    IF HasContent(document)
    THEN [ok |-> TRUE, text |-> rstrip(document) \o <<"LF", "LF">> \o block \o <<"LF">>]
    ELSE [ok |-> TRUE, text |-> block \o <<"LF">>]

upsert_generated_block(document, block) ==
    IF HasRegion(document)
    THEN LET repl == ExpandTemplate(block)
         IN  [ok |-> repl.ok,
              text |-> IF repl.ok
                       THEN SubSeq(document, 1, RegionStart(document) - 1) \o repl.text
                            \o SubSeq(document, RegionEnd(document) + 1, Len(document))
                       ELSE <<>>]
    ELSE IF HasContent(document)
    THEN [ok |-> TRUE, text |-> rstrip(document) \o <<"LF", "LF">> \o block \o <<"LF">>]
    ELSE [ok |-> TRUE, text |-> block \o <<"LF">>]

NotUpserted == [done |-> FALSE, ok |-> FALSE, text |-> <<>>]
Upserted(r) == [done |-> TRUE, ok |-> r.ok, text |-> r.text]

\* upsert_generated_block(document_text, tag, rendered_block)
UpsertFirst ==
    /\ ~upserted.first.done
    /\ upserted' = [upserted EXCEPT
                      !.first = Upserted(upsert_generated_block(document_text, rendered_block))]
    /\ UNCHANGED <<document_text, rendered_block, textVars, envVars, loaded, lockVars>>

\* the same call on the document the first call returned
UpsertAgain ==
    /\ upserted.first.done
    /\ upserted.first.ok
    /\ ~upserted.second.done
    /\ upserted' = [upserted EXCEPT
                      !.second = Upserted(upsert_generated_block(upserted.first.text,
                                                                 rendered_block))]
    /\ UNCHANGED <<document_text, rendered_block, textVars, envVars, loaded, lockVars>>

----------------------------------------------------------------------------
(* Runs of generate_spec_lock and of verify_spec_lock.py *)

Allows == {"unset", "1", "true"}

NoLoader == [p \in Paths |-> Raised("none", <<>>, <<>>)]

NotGenerated ==
    [status |-> "none", record |-> NoLock, attempts |-> <<>>, error |-> "none",
     message |-> <<>>, loader |-> NoLoader]

NotVerified ==
    [status |-> "none", lock_data |-> NoLock, locked_with |-> NoLoader,
     loader |-> NoLoader, allow |-> "unset", ok |-> FALSE, mismatches |-> <<>>,
     attempts |-> <<>>, decided |-> 0, exit_code |-> 0]

\* generate_spec_lock(manifest, content_loader); the record it returns becomes
\* the packet's lock record, an exception leaves the packet as it was
GenerateSpecLock ==
    LET g == generate_spec_lock(manifest, content_loader)
    IN  /\ generated' = [status |-> IF g.raised THEN "raised" ELSE "returned",
                         record |-> g.record, attempts |-> g.attempts,
                         error |-> g.error, message |-> g.message,
                         loader |-> content_loader]
        /\ lock' = IF g.raised THEN lock ELSE g.record
        /\ locked_with' = IF g.raised THEN locked_with ELSE content_loader
        /\ UNCHANGED <<textVars, upsertVars, envVars, loaded, manifest, verified, changes>>

\* verify_spec_lock.py, main: lines 71-96
main(lock_data, with, loader, allow) ==
    IF ~lock_data.present
    THEN [NotVerified EXCEPT !.status = "skipped", !.allow = allow, !.loader = loader]
    ELSE LET result == verify_spec_lock(lock_data, loader)
             exit_code == decide_exit_code(result.ok, allow)
         IN  [status |-> "done", lock_data |-> lock_data, locked_with |-> with,
              loader |-> loader, allow |-> allow, ok |-> result.ok,
              mismatches |-> result.mismatches, attempts |-> result.attempts,
              decided |-> exit_code,
              exit_code |-> IF result.ok THEN 0 ELSE exit_code]

\* one run of verify_spec_lock.py on the packet
VerifyMain ==
    /\ verified' = main(lock, locked_with, content_loader, allow_drift)
    /\ UNCHANGED <<textVars, upsertVars, envVars, loaded, manifest, lock, generated,
                   locked_with, changes>>

\* The result of a call lives in the process that made it (the verification
\* result is never persisted): the environment changes between processes, when
\* only the packet's lock record is left.
ProcessesExited ==
    /\ generated' = NotGenerated
    /\ verified' = NotVerified

\* the canonical repository changes: the structured API now answers otherwise
GhApiChanges(p, o) ==
    /\ changes < MaxChanges
    /\ o # gh_api[p]
    /\ gh_api' = [gh_api EXCEPT ![p] = o]
    /\ changes' = changes + 1
    /\ ProcessesExited
    /\ UNCHANGED <<textVars, upsertVars, infra_docs_root, local, raw_github, allow_drift,
                   loaded, manifest, lock, locked_with>>

\* the local checkout changes
LocalFileChanges(p, e) ==
    /\ changes < MaxChanges
    /\ e # local[p]
    /\ local' = [local EXCEPT ![p] = e]
    /\ changes' = changes + 1
    /\ ProcessesExited
    /\ UNCHANGED <<textVars, upsertVars, infra_docs_root, gh_api, raw_github, allow_drift,
                   loaded, manifest, lock, locked_with>>

\* the operator sets or unsets INFRA_DOCS_ROOT
SetInfraDocsRoot(r) ==
    /\ changes < MaxChanges
    /\ r # infra_docs_root
    /\ infra_docs_root' = r
    /\ changes' = changes + 1
    /\ ProcessesExited
    /\ UNCHANGED <<textVars, upsertVars, local, gh_api, raw_github, allow_drift,
                   loaded, manifest, lock, locked_with>>

----------------------------------------------------------------------------
(* Specifications *)

TextIdle == text = <<>> /\ variant = <<>> /\ hashed = HashedInit

UpsertIdle ==
    /\ document_text = <<>>
    /\ rendered_block = <<>>
    /\ upserted = [first |-> NotUpserted, second |-> NotUpserted]

LockIdle ==
    /\ manifest = CHOOSE m \in Manifests : Len(m.canonical_files) = 1
    /\ lock = NoLock
    /\ generated = NotGenerated
    /\ locked_with = NoLoader
    /\ verified = NotVerified
    /\ changes = 0

\* generation and verification of a packet against a canonical repository
\* that starts with every file holding the same line
Init ==
    /\ TextIdle
    /\ UpsertIdle
    /\ infra_docs_root = "unset"
    /\ local = [p \in Paths |-> IF p = "spec/a.md" THEN File(<<"a", "LF">>) ELSE Absent]
    /\ gh_api = [p \in Paths |-> Returns(<<"a", "LF">>)]
    /\ raw_github = [p \in Paths |-> Fails("raw.githubusercontent.com HTTP error")]
    /\ allow_drift \in Allows
    /\ loaded = NotLoaded
    /\ manifest \in Manifests
    /\ lock = NoLock
    /\ generated = NotGenerated
    /\ locked_with = NoLoader
    /\ verified = NotVerified
    /\ changes = 0

Next ==
    \/ GenerateSpecLock
    \/ VerifyMain
    \/ \E p \in Paths, o \in GhOutcomes : GhApiChanges(p, o)
    \/ \E p \in Paths, e \in LocalEntries \ {Directory} : LocalFileChanges(p, e)
    \/ \E r \in {"unset", "dir", "missing"} : SetInfraDocsRoot(r)

Spec == Init /\ [][Next]_vars

\* single calls of load_canonical_text in every environment
InitLoad ==
    /\ TextIdle
    /\ UpsertIdle
    /\ LockIdle
    /\ infra_docs_root \in Roots
    /\ local \in [Paths -> LocalEntries]
    /\ gh_api \in [Paths -> GhOutcomes]
    /\ raw_github \in [Paths -> RawOutcomes]
    /\ allow_drift = "unset"
    /\ loaded = NotLoaded

NextLoad == \E p \in Paths : LoadCanonicalText(p)

SpecLoad == InitLoad /\ [][NextLoad]_vars

EnvIdle ==
    /\ infra_docs_root = "unset"
    /\ local = [p \in Paths |-> Absent]
    /\ gh_api = [p \in Paths |-> Fails("gh CLI is not available")]
    /\ raw_github = [p \in Paths |-> Fails("raw.githubusercontent.com HTTP error")]
    /\ allow_drift = "unset"
    /\ loaded = NotLoaded

\* the hash normaliser on every text, with every other spelling of its line endings
InitText ==
    /\ text \in Texts
    /\ variant \in {v \in Texts : LineStructure(v) = LineStructure(text)}
    /\ hashed = HashedInit
    /\ UpsertIdle
    /\ EnvIdle
    /\ LockIdle

NextText ==
    \/ NormalizeText
    \/ NormalizeAgain
    \/ DigestTexts

SpecText == InitText /\ [][NextText]_vars

\* the upserter on every document and block, applied twice
InitUpsert ==
    /\ document_text \in Documents
    /\ rendered_block \in Blocks
    /\ upserted = [first |-> NotUpserted, second |-> NotUpserted]
    /\ TextIdle
    /\ EnvIdle
    /\ LockIdle

NextUpsert ==
    \/ UpsertFirst
    \/ UpsertAgain

SpecUpsert == InitUpsert /\ [][NextUpsert]_vars

----------------------------------------------------------------------------
(* Claims about generation and verification (Spec) *)

VEntries == verified.lock_data.canonical_files
VPaths == {VEntries[i].path : i \in DOMAIN VEntries}
VerifyRan == verified.status = "done"
AllLoaded == \A p \in VPaths : verified.loader[p].ok
ContentChanged(p) == verified.loader[p].text # verified.locked_with[p].text
Occurrences(p) == Cardinality({i \in DOMAIN VEntries : VEntries[i].path = p})
OnlyChanged(p) ==
    /\ p \in VPaths
    /\ ContentChanged(p)
    /\ \A q \in VPaths \ {p} : ~ContentChanged(q)

\* C1: a lock record generated with a loader that returns fixed content and
\* never fails, verified with the same loader, gives ok = true and no mismatch.
C1_GenerateThenVerifyPasses ==
    (VerifyRan /\ AllLoaded /\ \A p \in VPaths : ~ContentChanged(p))
        => (verified.ok /\ verified.mismatches = <<>>)

C1_Witness ==
    /\ VerifyRan /\ AllLoaded /\ \A p \in VPaths : ~ContentChanged(p)
    /\ Cardinality(VPaths) = 2
    /\ \E p \in VPaths : verified.loader[p].text = <<"a", "CR", "LF">>
    /\ verified.ok

\* C2 as stated: when the content of exactly one canonical file changes between
\* generation and verification, the result holds exactly one mismatch, naming
\* that path, with the digest of the original content as expected and the
\* digest of the new content as actual.
C2_OneChangeOneMismatch_AsStated ==
    \A p \in Paths :
        (VerifyRan /\ AllLoaded /\ OnlyChanged(p))
            => verified.mismatches =
                 <<[path |-> p,
                    expected |-> sha256_normalized_text(verified.locked_with[p].text),
                    actual |-> sha256_normalized_text(verified.loader[p].text)]>>

\* C2 amended: when the content of exactly one canonical file changes in more
\* than its line endings and that path is listed once in canonical_files, the
\* result holds exactly one mismatch, naming that path, with the digest of the
\* original content as expected and the digest of the new content as actual;
\* a change of line endings alone gives no mismatch.
C2_OneChangeOneMismatch ==
    \A p \in Paths :
        (VerifyRan /\ AllLoaded /\ OnlyChanged(p))
            => IF LineStructure(verified.loader[p].text)
                    = LineStructure(verified.locked_with[p].text)
               THEN verified.mismatches = <<>>
               ELSE Occurrences(p) = 1
                    => verified.mismatches =
                         <<[path |-> p,
                            expected |-> sha256_normalized_text(verified.locked_with[p].text),
                            actual |-> sha256_normalized_text(verified.loader[p].text)]>>

C2_Witness ==
    /\ VerifyRan /\ AllLoaded /\ OnlyChanged("spec/b.md")
    /\ VEntries[1].path = "spec/a.md"
    /\ Len(VEntries) = 2
    /\ verified.locked_with["spec/b.md"].text = <<"a", "LF">>
    /\ verified.loader["spec/b.md"].text = <<"b", "LF">>
    /\ Len(verified.mismatches) = 1

\* C3: an invalid local override root makes a verification run fail at once:
\* it never shows up as a per-path mismatch of a verification result, and so a
\* run that met it never exits with code 0.
C3_ConfigurationErrorNotDowngraded ==
    VerifyRan =>
        /\ \A i \in DOMAIN verified.mismatches :
             verified.mismatches[i].actual # ErrorPlaceholder(InvalidRoot)
        /\ (\E p \in VPaths : verified.loader[p] = InvalidRoot) => verified.exit_code # 0

Failing(i) ==
    LET out == verified.loader[VEntries[i].path]
    IN  \/ ~out.ok
        \/ sha256_normalized_text(out.text) # VEntries[i].sha256
FailingEntries == {i \in DOMAIN VEntries : Failing(i)}
InOrder(S) ==
    CHOOSE s \in [1..Cardinality(S) -> S] :
        \A a, b \in 1..Cardinality(S) : a < b => s[a] < s[b]

\* C4: verification attempts every entry of the lock record once, in order; a
\* failing retrieval gives one mismatch holding an error placeholder and does
\* not hide the others; every entry whose digest differs is reported; the
\* mismatches are in lock order and ok is true iff there is none.
C4_RetrievalFailureDoesNotAbort ==
    VerifyRan =>
        /\ verified.attempts = [i \in DOMAIN VEntries |-> VEntries[i].path]
        /\ Len(verified.mismatches) = Cardinality(FailingEntries)
        /\ \A k \in DOMAIN verified.mismatches :
             LET i == InOrder(FailingEntries)[k]
                 out == verified.loader[VEntries[i].path]
                 m == verified.mismatches[k]
             IN  /\ m.path = VEntries[i].path
                 /\ m.expected = VEntries[i].sha256
                 /\ IF out.ok THEN m.actual = sha256_normalized_text(out.text)
                    ELSE m.actual.kind = "error" /\ m.actual.of = <<out.error>> \o out.message
        /\ verified.ok <=> verified.mismatches = <<>>

C4_Witness ==
    /\ VerifyRan
    /\ Len(VEntries) = 2
    /\ Len(verified.mismatches) = 2
    /\ verified.mismatches[1].actual.kind = "error"
    /\ verified.mismatches[2].actual.kind = "sha256"
    /\ ~verified.ok

\* C5: the exit policy gives 0 when the result is ok; when it is not, 0 only if
\* ALLOW_SPEC_DRIFT is "1" and 1 otherwise; the process exits with that code.
C5_ExitPolicy ==
    VerifyRan =>
        /\ verified.ok => verified.decided = 0
        /\ (~verified.ok /\ verified.allow = "1") => verified.decided = 0
        /\ (~verified.ok /\ verified.allow # "1") => verified.decided = 1
        /\ verified.exit_code = verified.decided

C5_Witness ==
    /\ VerifyRan
    /\ ~verified.ok
    /\ verified.allow = "true"
    /\ verified.exit_code = 1

GFiles == manifest.canonical_files
GenerateRan == generated.status # "none"
FailingLoads == {i \in DOMAIN GFiles : ~generated.loader[GFiles[i]].ok}

\* C10: generation is all-or-nothing and keeps the manifest's order: when the
\* loader fails for a path the call fails, returns no lock record and loads no
\* later path; otherwise the record holds one entry per canonical_files item,
\* in order, with that path and the digest of its loaded content.
C10_GenerateAllOrNothing ==
    GenerateRan =>
        IF FailingLoads # {}
        THEN /\ generated.status = "raised"
             /\ ~generated.record.present
             /\ generated.attempts = SubSeq(GFiles, 1, Min(FailingLoads))
        ELSE /\ generated.status = "returned"
             /\ generated.record.present
             /\ generated.attempts = GFiles
             /\ generated.record.canonical_files =
                  [i \in DOMAIN GFiles |->
                     [path |-> GFiles[i],
                      sha256 |-> sha256_normalized_text(generated.loader[GFiles[i]].text)]]
             /\ lock = generated.record

C10_Witness ==
    /\ generated.status = "raised"
    /\ Len(GFiles) = 2
    /\ FailingLoads = {1}
    /\ generated.attempts = <<GFiles[1]>>
    /\ lock.present

----------------------------------------------------------------------------
(* Claims about the content loader (SpecLoad) *)

LEntry == local[loaded.relpath]
LGh == gh_api[loaded.relpath]
LRaw == raw_github[loaded.relpath]
LOut == loaded.outcome
Attempted(strategy) == {i \in DOMAIN LOut.attempts : LOut.attempts[i] = strategy}
NoNetworkAttempt == Attempted("gh_api") = {} /\ Attempted("raw_github") = {}

\* C6 as stated: with a local override root no network strategy is attempted;
\* a file that exists under the root is returned verbatim, and an absent one
\* fails without falling back.
C6_LocalRootOnly_AsStated ==
    (loaded.called /\ RootSupplied(infra_docs_root)) =>
        /\ NoNetworkAttempt
        /\ (infra_docs_root = "dir" /\ LEntry.kind = "file")
             => (LOut.ok /\ LOut.text = LEntry.text)
        /\ (infra_docs_root = "dir" /\ LEntry.kind = "absent") => ~LOut.ok

\* C6 amended: with a local override root no network strategy is attempted; a
\* file that exists under the root is returned as text mode reads it, CR LF and
\* bare CR arriving as LF and everything else unchanged (verbatim when it holds
\* no CR); an absent one, or an invalid root, fails without falling back.
C6_LocalRootOnly ==
    (loaded.called /\ RootSupplied(infra_docs_root)) =>
        /\ NoNetworkAttempt
        /\ (infra_docs_root = "dir" /\ LEntry.kind = "file")
             => /\ LOut.ok
                /\ LOut.text = ReplaceCR(ReplaceCRLF(LEntry.text))
                /\ (\A i \in DOMAIN LEntry.text : LEntry.text[i] # "CR")
                     => LOut.text = LEntry.text
        /\ (infra_docs_root = "dir" /\ LEntry.kind = "absent")
             => (~LOut.ok /\ LOut.error = "FileNotFoundError")
        /\ infra_docs_root # "dir" => (~LOut.ok /\ LOut.attempts = <<>>)

C6_Witness ==
    /\ loaded.called
    /\ infra_docs_root = "dir"
    /\ LEntry.kind = "absent"
    /\ LGh.ok
    /\ LRaw.ok
    /\ ~LOut.ok
    /\ LOut.attempts = <<"local">>

\* C9: without a local root the structured API is attempted first and once; the
\* raw fetch is attempted, at most once, only after the API failed; the API's
\* content is returned when it succeeds, the raw content when only the raw
\* fetch succeeds, and when both fail the error names both causes.
C9_FallbackOrder ==
    (loaded.called /\ ~RootSupplied(infra_docs_root)) =>
        /\ Attempted("gh_api") = {1}
        /\ Attempted("local") = {}
        /\ Cardinality(Attempted("raw_github")) <= 1
        /\ Attempted("raw_github") # {} <=> ~LGh.ok
        /\ Attempted("raw_github") \subseteq {2}
        /\ LGh.ok => (LOut.ok /\ LOut.text = LGh.text)
        /\ (~LGh.ok /\ LRaw.ok) => (LOut.ok /\ LOut.text = LRaw.text /\ LOut.error = "none")
        /\ (~LGh.ok /\ ~LRaw.ok)
             => /\ ~LOut.ok
                /\ \E i \in DOMAIN LOut.message : LOut.message[i] = LGh.cause
                /\ \E i \in DOMAIN LOut.message : LOut.message[i] = LRaw.cause

C9_Witness ==
    /\ loaded.called
    /\ infra_docs_root = "empty"
    /\ ~LGh.ok
    /\ LRaw.ok
    /\ LRaw.text = <<"a", "CR", "LF">>
    /\ LOut.ok
    /\ LOut.attempts = <<"gh_api", "raw_github">>

----------------------------------------------------------------------------
(* Claims about the hash normaliser (SpecText) *)

\* C8: the digest of a text is the digest of its normalisation, normalising
\* twice is normalising once, and two texts with the same lines, whatever mix
\* of CR LF, CR and LF ends them, have the same digest.
C8_DigestIgnoresLineEndings ==
    /\ hashed.renormalized.set => hashed.renormalized.val = hashed.normalized.val
    /\ hashed.dText.kind # "none"
         => /\ hashed.dText = hashed.dNormalized
            /\ hashed.dText = hashed.dVariant
            /\ \A i \in DOMAIN hashed.dText.of : hashed.dText.of[i] # "CR"

C8_Witness ==
    /\ hashed.dText.kind # "none"
    /\ hashed.renormalized.set
    /\ text = <<"a", "CR", "LF">>
    /\ variant = <<"a", "CR">>
    /\ hashed.dVariant = hashed.dText

----------------------------------------------------------------------------
(* Claims about the generated block upserter (SpecUpsert) *)

\* the block is one generated region: it opens with the BEGIN sentinel, closes
\* with the END sentinel, and holds no other END sentinel and no backslash
DelimitedBlock(b) ==
    /\ Len(b) >= 2
    /\ b[1] = "B"
    /\ b[Len(b)] = "E"
    /\ \A i \in 1..(Len(b) - 1) : b[i] \notin {"E", "BS"}

NoDanglingBegin(d) ==
    \/ \E i, j \in DOMAIN d : i < j /\ d[i] = "B" /\ d[j] = "E"
    \/ \A i \in DOMAIN d : d[i] # "B"

====
